---- MODULE Spec2Model ----
(***************************************************************************)
(* Flowblade projectdata.py: the Project aggregate (media-file table,      *)
(* bins, media log), the MediaFile proxy/original swap, the module-level   *)
(* thumbnail thread singleton and the ThumbnailThread worker with its      *)
(* unlocked write_image / get_file_length / shutdown methods.              *)
(*                                                                         *)
(* The state machines below share the variables; each leaves the          *)
(* variables of the others untouched:                                      *)
(*   Spec       Project: add / delete media objects, bins                  *)
(*   SpecMedia  one MediaFile: add_proxy_file and the two setters          *)
(*   SpecLog    Project.media_log: filtered query and bulk delete          *)
(*   SpecStart  Project.start_thumbnail_thread run by several threads      *)
(*   SpecThumb  one started ThumbnailThread: run(), shutdown(), two callers *)
(*   FairThumb  run(), shutdown() and one caller, scheduled fairly          *)
(***************************************************************************)
EXTENDS Integers, Sequences, FiniteSets, TLC

VARIABLES
    \* ---- Project (projectdata.py 69-91)
    media_files,          \* MediaFile.id -> media object
    next_media_file_id,
    bins,                 \* list of Bin objects
    next_bin_number,
    last_error,           \* exception raised by the latest Project call, or "none"
    \* ---- one MediaFile (213-228) and the calls made on it
    mf,                   \* the MediaFile object
    mf_calls,             \* sequence of [op, pre]: each call and the object before it
    \* ---- Project.media_log (81) and the latest query/delete
    media_log,            \* list of media log events
    filtered_events,      \* flags -> result of the query made since the log last changed
    log_call,             \* [op, pre, arg, raised]: the latest call that changed the log
    \* ---- thumbnail_thread singleton (59, 96-102)
    thumbnail_thread,     \* module global: "None" or a ThumbnailThread
    ctor_pc,              \* constructing thread -> position in start_thumbnail_thread
    created,              \* ThumbnailThread objects constructed so far
    has_context,          \* objects on which set_context has been called
    started,              \* objects on which start() has succeeded
    \* ---- one ThumbnailThread object (316-378)
    file_path, thumbnail_path, consumer, producer, running, stopped,
    run_pc,               \* position of the worker in run()
    call_pc,              \* caller -> position in write_image / get_file_length
    call_arg,             \* caller -> the file_path argument of its call
    call_length,          \* caller -> local variable length of write_image
    call_result,          \* caller -> what its latest call returned or raised
    sd_pc                 \* position of the thread calling shutdown()

project_vars == <<media_files, next_media_file_id, bins, next_bin_number, last_error>>
media_vars   == <<mf, mf_calls>>
log_vars     == <<media_log, filtered_events, log_call>>
start_vars   == <<thumbnail_thread, ctor_pc, created, has_context, started>>
thumb_vars   == <<file_path, thumbnail_path, consumer, producer, running, stopped,
                  run_pc, call_pc, call_arg, call_length, call_result, sd_pc>>
vars == <<project_vars, media_vars, log_vars, start_vars, thumb_vars>>

\* what a step of one machine leaves alone
not_project == <<media_vars, log_vars, start_vars, thumb_vars>>
not_media   == <<project_vars, log_vars, start_vars, thumb_vars>>
not_log     == <<project_vars, media_vars, start_vars, thumb_vars>>
not_start   == <<project_vars, media_vars, log_vars, thumb_vars>>
not_thumb   == <<project_vars, media_vars, log_vars, start_vars>>

\* ------------------------------------------------------------------ bounds
MaxFiles == 3      \* adds per project run (caps next_media_file_id)
MaxBins == 2       \* bins per project
MaxCalls == 5      \* calls made on the one MediaFile
MaxLog == 3        \* length of the media log
MaxCtor == 3       \* threads that construct a Project

\* --------------------------------------------------- values and environment
None == "None"
Unset == "unset"         \* an attribute run() has not assigned yet

AUDIO == "AUDIO"
VIDEO == "VIDEO"
PATTERN_PRODUCER == "PATTERN_PRODUCER"

Paths == {"clip.mp4", "bad.mp4", "song.wav", "bad.wav"}

\* sequence.get_media_type(file_path)
get_media_type(fp) == IF fp \in {"song.wav", "bad.wav"} THEN AUDIO ELSE VIDEO

\* mlt.Producer(profile, path).is_valid(): the framework cannot read bad.*
producer_is_valid(fp) == fp \notin {"bad.mp4", "bad.wav", ""}

\* mlt.Producer.get_length(): 0 for a producer that is not valid
producer_get_length(fp) ==
    CASE fp = "clip.mp4" -> 40
      [] fp = "song.wav" -> 90
      [] OTHER -> 0

\* prefs.thumbnail_folder + "/" + md5(file_path) + ".png"
thumb_path_for(fp) == "thumbs/" \o fp \o ".png"

ProducerNotValidError == "ProducerNotValidError"


\* ======================================================== MediaFile object
MediaFile(id, fpath, name, media_type, length, icon_path) ==
    [id |-> id, path |-> fpath, name |-> name, type |-> media_type,
     length |-> length, icon_path |-> icon_path,
     has_proxy_file |-> FALSE, is_proxy_file |-> FALSE,
     second_file_path |-> None]

\* patternproducer / BinColorClip object handed to add_pattern_producer_media_object
BinColorClip(id, name) ==
    [id |-> id, name |-> name, type |-> PATTERN_PRODUCER, length |-> 15000]

\* ================================================================= Project
\* ThumbnailThread.write_image called with no other call in flight: what the
\* caller gets back
write_image(fp) ==
    IF ~producer_is_valid(fp)
    THEN [raised |-> ProducerNotValidError, icon_path |-> None, length |-> 0]
    ELSE [raised |-> "none", icon_path |-> thumb_path_for(fp),
          length |-> producer_get_length(fp)]

\* ThumbnailThread.get_file_length called with no other call in flight
get_file_length(fp) == producer_get_length(fp)

\* the Bin opened by __init__; c_bin = bins[0] (Python index 0, here 1)
c_bin == 1

Bin(name) == [name |-> name, file_ids |-> <<>>]

InitProject ==
    /\ media_files = <<>>
    /\ next_media_file_id = 0
    /\ bins = <<Bin(1)>>
    /\ next_bin_number = 2
    /\ last_error = "none"

\* list.pop(i), i >= 0 a Python index within the list
list_pop(list, i) == SubSeq(list, 1, i) \o SubSeq(list, i + 2, Len(list))

add_media_object(media_object) ==
    /\ media_files' = [k \in DOMAIN media_files \cup {media_object.id} |->
                         IF k = media_object.id THEN media_object
                                                ELSE media_files[k]]
    /\ next_media_file_id' = next_media_file_id + 1
    /\ bins' = [bins EXCEPT ![c_bin].file_ids = Append(@, media_object.id)]

\* lines 113-128 of add_media_file: the media object it builds, or the
\* exception that leaves it
new_media_object(fp) ==
    LET media_type == get_media_type(fp)
        got == IF media_type = AUDIO
               THEN [raised |-> "none", icon_path |-> "audio_file.png",
                     length |-> get_file_length(fp)]
               ELSE write_image(fp)
    IN  [raised |-> got.raised,
         obj |-> MediaFile(next_media_file_id, fp, fp, media_type,
                           got.length, got.icon_path)]

add_media_file(fp) ==
    /\ next_media_file_id < MaxFiles
    /\ LET r == new_media_object(fp)
       IN  IF r.raised # "none"
           THEN /\ last_error' = r.raised
                /\ UNCHANGED <<media_files, next_media_file_id, bins>>
           ELSE /\ add_media_object(r.obj)
                /\ last_error' = "none"
    /\ UNCHANGED next_bin_number
    /\ UNCHANGED not_project

add_image_sequence_media_object(resource_path, name, length) ==
    /\ next_media_file_id < MaxFiles
    /\ LET r == new_media_object(resource_path)
       IN  IF r.raised # "none"
           THEN /\ last_error' = r.raised
                /\ UNCHANGED <<media_files, next_media_file_id, bins>>
           ELSE /\ add_media_object([r.obj EXCEPT !.length = length,
                                                  !.name = name])
                /\ last_error' = "none"
    /\ UNCHANGED next_bin_number
    /\ UNCHANGED not_project

add_pattern_producer_media_object(media_object) ==
    /\ next_media_file_id < MaxFiles
    /\ add_media_object(media_object)
    /\ last_error' = "none"
    /\ UNCHANGED next_bin_number
    /\ UNCHANGED not_project

delete_media_file_from_current_bin(media_file) ==
    /\ LET ids == bins[c_bin].file_ids
       IN  IF media_file.id < Len(ids)
           THEN /\ bins' = [bins EXCEPT ![c_bin].file_ids =
                                            list_pop(ids, media_file.id)]
                /\ last_error' = "none"
           ELSE /\ last_error' = "IndexError"
                /\ UNCHANGED bins
    /\ UNCHANGED <<media_files, next_media_file_id, next_bin_number>>
    /\ UNCHANGED not_project

add_unnamed_bin ==
    /\ Len(bins) < MaxBins
    /\ bins' = Append(bins, Bin(next_bin_number))
    /\ next_bin_number' = next_bin_number + 1
    /\ last_error' = "none"
    /\ UNCHANGED <<media_files, next_media_file_id>>
    /\ UNCHANGED not_project

NextProject ==
    \/ \E fp \in Paths : add_media_file(fp)
    \/ \E fp \in Paths : add_image_sequence_media_object(fp, "frames", 25)
    \/ \E i \in 0..MaxFiles :
          add_pattern_producer_media_object(BinColorClip(i, "color"))
    \/ \E k \in DOMAIN media_files :
          delete_media_file_from_current_bin(media_files[k])
    \/ add_unnamed_bin

\* =============================================================== MediaFile
ProxyPaths == {"proxies/p1.mp4", "proxies/p2.mp4"}

InitMedia ==
    /\ mf = MediaFile(0, "clip.mp4", "clip.mp4", VIDEO, 40,
                      thumb_path_for("clip.mp4"))
    /\ mf_calls = <<>>

\* the object after each method body
proxy_file_added(m, proxy_path) ==
    [m EXCEPT !.has_proxy_file = TRUE, !.second_file_path = proxy_path]

\* variant: the flag is set and the paths are not swapped
set_as_proxy_only_flag(m) == [m EXCEPT !.is_proxy_file = TRUE]

set_as_proxy(m) ==
    [m EXCEPT !.path = m.second_file_path, !.second_file_path = m.path,
              !.is_proxy_file = TRUE]

set_as_original(m) ==
    [m EXCEPT !.path = m.second_file_path, !.second_file_path = m.path,
              !.is_proxy_file = FALSE]

add_proxy_file(proxy_path) ==
    /\ Len(mf_calls) < MaxCalls
    /\ mf' = proxy_file_added(mf, proxy_path)
    /\ mf_calls' = Append(mf_calls, [op |-> "add_proxy_file", pre |-> mf])
    /\ UNCHANGED not_media

set_as_proxy_media_file ==
    /\ Len(mf_calls) < MaxCalls
    /\ mf' = set_as_proxy(mf)
    /\ mf_calls' = Append(mf_calls, [op |-> "set_as_proxy_media_file", pre |-> mf])
    /\ UNCHANGED not_media

set_as_original_media_file ==
    /\ Len(mf_calls) < MaxCalls
    /\ mf' = set_as_original(mf)
    /\ mf_calls' = Append(mf_calls, [op |-> "set_as_original_media_file", pre |-> mf])
    /\ UNCHANGED not_media

NextMedia ==
    \/ \E p \in ProxyPaths : add_proxy_file(p)
    \/ set_as_proxy_media_file
    \/ set_as_original_media_file

\* =============================================================== media log
\* medialog.MediaLogEvent objects: an object has one identity and one star
Events == [name : {"e1", "e2"}, starred : BOOLEAN]

MaxDel == 2        \* length of delete_events

Flags == BOOLEAN \X BOOLEAN
NotQueried == [queried |-> FALSE, events |-> <<>>]
NoCall == [op |-> "none", pre |-> <<>>, arg |-> <<>>, raised |-> "none"]

Range(s) == {s[i] : i \in DOMAIN s}

InitLog ==
    /\ media_log = <<>>
    /\ filtered_events = [f \in Flags |-> NotQueried]
    /\ log_call = NoCall

\* variant: the two flags tested against the wrong star
media_log_included_swapped(starred, incl_starred, incl_not_starred) ==
    IF starred = TRUE /\ incl_not_starred = TRUE THEN TRUE
    ELSE IF starred = FALSE /\ incl_starred = TRUE THEN TRUE
    ELSE FALSE

media_log_included_by_starred(starred, incl_starred, incl_not_starred) ==
    IF starred = TRUE /\ incl_starred = TRUE THEN TRUE
    ELSE IF starred = FALSE /\ incl_not_starred = TRUE THEN TRUE
    ELSE FALSE

\* the loop of get_filtered_media_log_events over the list log
RECURSIVE filter_loop(_, _, _)
filter_loop(log, incl_starred, incl_not_starred) ==
    IF log = <<>> THEN <<>>
    ELSE LET rest == filter_loop(Tail(log), incl_starred, incl_not_starred)
         IN  IF media_log_included_by_starred(Head(log).starred,
                                              incl_starred, incl_not_starred)
             THEN <<Head(log)>> \o rest
             ELSE rest

\* variant: every item equal to e is dropped
list_remove_every(list, e) == SelectSeq(list, LAMBDA x : x # e)

\* list.remove(e), e in the list: drops the first item equal to e
list_remove(list, e) ==
    LET i == CHOOSE i \in 1..Len(list) :
                 list[i] = e /\ \A j \in 1..(i - 1) : list[j] # e
    IN  SubSeq(list, 1, i - 1) \o SubSeq(list, i + 1, Len(list))

\* the loop of delete_media_log_events; list.remove raises ValueError for an
\* item that is not in the list and the loop ends there
RECURSIVE delete_loop(_, _)
delete_loop(log, delete_events) ==
    IF delete_events = <<>> THEN [log |-> log, raised |-> "none"]
    ELSE IF Head(delete_events) \notin Range(log)
         THEN [log |-> log, raised |-> "ValueError"]
         ELSE delete_loop(list_remove(log, Head(delete_events)),
                          Tail(delete_events))

\* medialog appends a logged event to Project.media_log
append_media_log_event(e) ==
    /\ Len(media_log) < MaxLog
    /\ media_log' = Append(media_log, e)
    /\ filtered_events' = [f \in Flags |-> NotQueried]
    /\ log_call' = [op |-> "append", pre |-> media_log, arg |-> <<e>>,
                    raised |-> "none"]
    /\ UNCHANGED not_log

get_filtered_media_log_events(incl_starred, incl_not_starred) ==
    /\ filtered_events' =
          [filtered_events EXCEPT ![<<incl_starred, incl_not_starred>>] =
              [queried |-> TRUE,
               events |-> filter_loop(media_log, incl_starred,
                                      incl_not_starred)]]
    /\ UNCHANGED <<media_log, log_call>>
    /\ UNCHANGED not_log

\* delete_events: the events of some rows of the log, in any order
DeleteArgs ==
    UNION {[1..n -> Range(media_log)] : n \in 0..MaxDel}

delete_media_log_events(delete_events) ==
    /\ LET r == delete_loop(media_log, delete_events)
       IN  /\ media_log' = r.log
           /\ log_call' = [op |-> "delete", pre |-> media_log,
                           arg |-> delete_events, raised |-> r.raised]
    /\ filtered_events' = [f \in Flags |-> NotQueried]
    /\ UNCHANGED not_log

NextLog ==
    \/ \E e \in Events : append_media_log_event(e)
    \/ \E f \in Flags : get_filtered_media_log_events(f[1], f[2])
    \/ \E d \in DeleteArgs : delete_media_log_events(d)

\* ================================================ thumbnail_thread singleton
\* the threads that construct a Project; the ThumbnailThread a thread
\* constructs is named after it
Ctors == 1..MaxCtor
NoThread == <<>>                  \* thumbnail_thread = None
ThumbnailThread(c) == <<c>>       \* the object thread c constructs

InitStart ==
    /\ thumbnail_thread = NoThread
    /\ ctor_pc = [c \in Ctors |-> "idle"]
    /\ created = {}
    /\ has_context = {}
    /\ started = {}

\* Project.__init__ up to the call of start_thumbnail_thread
ctor_new_project(c) ==
    /\ ctor_pc[c] \in {"idle", "done"}
    /\ ctor_pc' = [ctor_pc EXCEPT ![c] = "l99"]
    /\ UNCHANGED <<thumbnail_thread, created, has_context, started>>
    /\ UNCHANGED not_start

\* if thumbnail_thread == None:
ctor_l99(c) ==
    /\ ctor_pc[c] = "l99"
    /\ ctor_pc' = [ctor_pc EXCEPT ![c] =
                      IF thumbnail_thread = NoThread THEN "l100" ELSE "done"]
    /\ UNCHANGED <<thumbnail_thread, created, has_context, started>>
    /\ UNCHANGED not_start

\* thumbnail_thread = ThumbnailThread()
ctor_l100(c) ==
    /\ ctor_pc[c] = "l100"
    /\ created' = created \cup {ThumbnailThread(c)}
    /\ thumbnail_thread' = ThumbnailThread(c)
    /\ ctor_pc' = [ctor_pc EXCEPT ![c] = "l101"]
    /\ UNCHANGED <<has_context, started>>
    /\ UNCHANGED not_start

\* thumbnail_thread.set_context(self.profile): the global is read again
ctor_l101(c) ==
    /\ ctor_pc[c] = "l101"
    /\ has_context' = has_context \cup {thumbnail_thread}
    /\ ctor_pc' = [ctor_pc EXCEPT ![c] = "l102"]
    /\ UNCHANGED <<thumbnail_thread, created, started>>
    /\ UNCHANGED not_start

\* thumbnail_thread.start(): threading.Thread.start raises RuntimeError on a
\* thread that has been started
ctor_l102(c) ==
    /\ ctor_pc[c] = "l102"
    /\ IF thumbnail_thread \in started
       THEN /\ ctor_pc' = [ctor_pc EXCEPT ![c] = "RuntimeError"]
            /\ UNCHANGED started
       ELSE /\ started' = started \cup {thumbnail_thread}
            /\ ctor_pc' = [ctor_pc EXCEPT ![c] = "done"]
    /\ UNCHANGED <<thumbnail_thread, created, has_context>>
    /\ UNCHANGED not_start

NextStart ==
    \E c \in Ctors :
        \/ ctor_new_project(c)
        \/ ctor_l99(c)
        \/ ctor_l100(c)
        \/ ctor_l101(c)
        \/ ctor_l102(c)

\* ========================================================= ThumbnailThread
\* the threads that call write_image / get_file_length on the thread object
Callers == {"caller_a", "caller_b"}

\* attribute values of the thread object: an attribute run() has not assigned
\* yet, None, and Python's True / False
UnsetHandle == [kind |-> "unset"]
NoneHandle == [kind |-> "None"]
PyTrue == "True"
PyFalse == "False"

NoResult == [op |-> "none", arg |-> None, raised |-> "none",
             thumbnail_path |-> None, length |-> 0]

\* the object after start(): run() has assigned nothing yet
InitThumb ==
    /\ file_path = Unset
    /\ thumbnail_path = Unset
    /\ consumer = UnsetHandle
    /\ producer = UnsetHandle
    /\ running = Unset
    /\ stopped = Unset
    /\ run_pc = "l320"
    /\ call_pc = [c \in Callers |-> "idle"]
    /\ call_arg = [c \in Callers |-> None]
    /\ call_length = [c \in Callers |-> 0]
    /\ call_result = [c \in Callers |-> NoResult]
    /\ sd_pc = "idle"

caller_vars == <<call_pc, call_arg, call_length, call_result>>
field_vars == <<file_path, thumbnail_path, consumer, producer, running, stopped>>

\* ---- run()
run_l320 ==
    /\ run_pc = "l320" /\ run_pc' = "l321"
    /\ file_path' = ""
    /\ UNCHANGED <<thumbnail_path, consumer, producer, running, stopped,
                   caller_vars, sd_pc>>
    /\ UNCHANGED not_thumb

run_l321 ==
    /\ run_pc = "l321" /\ run_pc' = "l322"
    /\ thumbnail_path' = ""
    /\ UNCHANGED <<file_path, consumer, producer, running, stopped,
                   caller_vars, sd_pc>>
    /\ UNCHANGED not_thumb

run_l322 ==
    /\ run_pc = "l322" /\ run_pc' = "l323"
    /\ consumer' = NoneHandle
    /\ UNCHANGED <<file_path, thumbnail_path, producer, running, stopped,
                   caller_vars, sd_pc>>
    /\ UNCHANGED not_thumb

run_l323 ==
    /\ run_pc = "l323" /\ run_pc' = "l324"
    /\ producer' = NoneHandle
    /\ UNCHANGED <<file_path, thumbnail_path, consumer, running, stopped,
                   caller_vars, sd_pc>>
    /\ UNCHANGED not_thumb

run_l324 ==
    /\ run_pc = "l324" /\ run_pc' = "l325"
    /\ running' = PyTrue
    /\ UNCHANGED <<file_path, thumbnail_path, consumer, producer, stopped,
                   caller_vars, sd_pc>>
    /\ UNCHANGED not_thumb

run_l325 ==
    /\ run_pc = "l325" /\ run_pc' = "l327"
    /\ stopped' = PyFalse
    /\ UNCHANGED <<file_path, thumbnail_path, consumer, producer, running,
                   caller_vars, sd_pc>>
    /\ UNCHANGED not_thumb

\* while self.running:
run_l327 ==
    /\ run_pc = "l327"
    /\ run_pc' = IF running = PyTrue THEN "l328" ELSE "l330"
    /\ UNCHANGED <<field_vars, caller_vars, sd_pc>>
    /\ UNCHANGED not_thumb

\* time.sleep(1)
run_l328 ==
    /\ run_pc = "l328" /\ run_pc' = "l327"
    /\ UNCHANGED <<field_vars, caller_vars, sd_pc>>
    /\ UNCHANGED not_thumb

run_l330 ==
    /\ run_pc = "l330" /\ run_pc' = "done"
    /\ stopped' = PyTrue
    /\ UNCHANGED <<file_path, thumbnail_path, consumer, producer, running,
                   caller_vars, sd_pc>>
    /\ UNCHANGED not_thumb

Worker ==
    \/ run_l320 \/ run_l321 \/ run_l322 \/ run_l323 \/ run_l324
    \/ run_l325 \/ run_l327 \/ run_l328 \/ run_l330

\* ---- shutdown()
sd_call ==
    /\ sd_pc = "idle" /\ sd_pc' = "l376"
    /\ UNCHANGED <<field_vars, run_pc, caller_vars>>
    /\ UNCHANGED not_thumb

\* if self.consumer != None: self.consumer.stop()
sd_l376 ==
    /\ sd_pc = "l376"
    /\ sd_pc' = IF consumer = UnsetHandle THEN "AttributeError" ELSE "l378"
    /\ UNCHANGED <<field_vars, run_pc, caller_vars>>
    /\ UNCHANGED not_thumb

sd_l378 ==
    /\ sd_pc = "l378" /\ sd_pc' = "done"
    /\ running' = PyFalse
    /\ UNCHANGED <<file_path, thumbnail_path, consumer, producer, stopped,
                   run_pc, caller_vars>>
    /\ UNCHANGED not_thumb

Shutdown == sd_l376 \/ sd_l378

\* ---- write_image(file_path) and get_file_length(file_path), line by line
Producer(path) == [kind |-> "Producer", src |-> path, cut |-> FALSE]
Consumer(target) == [kind |-> "Consumer", target |-> target]

\* mlt.Producer.get_length(); a producer cut to (frame, frame) is one frame long
length_of(prod) == IF prod.cut THEN 1 ELSE producer_get_length(prod.src)

\* a call begins: each caller thread makes one call
call_begin(c, op, fp) ==
    /\ call_pc[c] = "idle"
    /\ call_result[c] = NoResult
    /\ call_pc' = [call_pc EXCEPT ![c] = IF op = "write_image" THEN "l340"
                                                                ELSE "l369"]
    /\ call_arg' = [call_arg EXCEPT ![c] = fp]
    /\ UNCHANGED <<field_vars, run_pc, sd_pc, call_length, call_result>>
    /\ UNCHANGED not_thumb

goto(c, line) == call_pc' = [call_pc EXCEPT ![c] = line]

\* the call returns or raises; its locals go with its frame
leave(c, op, raised, path, length) ==
    /\ call_pc' = [call_pc EXCEPT ![c] = "idle"]
    /\ call_arg' = [call_arg EXCEPT ![c] = None]
    /\ call_length' = [call_length EXCEPT ![c] = 0]
    /\ call_result' = [call_result EXCEPT ![c] =
                          [op |-> op, arg |-> call_arg[c], raised |-> raised,
                           thumbnail_path |-> path, length |-> length]]

\* self.file_path = file_path
wi_l340(c) ==
    /\ call_pc[c] = "l340" /\ goto(c, "l342")
    /\ file_path' = call_arg[c]
    /\ UNCHANGED <<thumbnail_path, consumer, producer, running, stopped,
                   run_pc, sd_pc, call_arg, call_length, call_result>>
    /\ UNCHANGED not_thumb

\* self.thumbnail_path = thumbnail_folder + "/" + md5(file_path) + ".png"
wi_l342(c) ==
    /\ call_pc[c] = "l342" /\ goto(c, "l345")
    /\ thumbnail_path' = thumb_path_for(call_arg[c])
    /\ UNCHANGED <<file_path, consumer, producer, running, stopped,
                   run_pc, sd_pc, call_arg, call_length, call_result>>
    /\ UNCHANGED not_thumb

\* self.consumer = mlt.Consumer(self.profile, "avformat", self.thumbnail_path)
wi_l345(c) ==
    /\ call_pc[c] = "l345" /\ goto(c, "l351")
    /\ consumer' = Consumer(thumbnail_path)
    /\ UNCHANGED <<file_path, thumbnail_path, producer, running, stopped,
                   run_pc, sd_pc, call_arg, call_length, call_result>>
    /\ UNCHANGED not_thumb

\* variant: the producer is created from the argument, not from the field
wi_l351_from_argument(c) ==
    /\ call_pc[c] = "l351" /\ goto(c, "l352")
    /\ producer' = Producer(call_arg[c])
    /\ UNCHANGED <<file_path, thumbnail_path, consumer, running, stopped,
                   run_pc, sd_pc, call_arg, call_length, call_result>>
    /\ UNCHANGED not_thumb

\* self.producer = mlt.Producer(self.profile, str(self.file_path))
wi_l351(c) ==
    /\ call_pc[c] = "l351" /\ goto(c, "l352")
    /\ producer' = Producer(file_path)
    /\ UNCHANGED <<file_path, thumbnail_path, consumer, running, stopped,
                   run_pc, sd_pc, call_arg, call_length, call_result>>
    /\ UNCHANGED not_thumb

\* if self.producer.is_valid() == False: raise ProducerNotValidError(file_path)
wi_l352(c) ==
    /\ call_pc[c] = "l352"
    /\ IF producer = NoneHandle
       THEN leave(c, "write_image", "AttributeError", None, 0)
       ELSE IF ~producer_is_valid(producer.src)
       THEN leave(c, "write_image", ProducerNotValidError, None, 0)
       ELSE goto(c, "l355") /\ UNCHANGED <<call_arg, call_length, call_result>>
    /\ UNCHANGED <<field_vars, run_pc, sd_pc>>
    /\ UNCHANGED not_thumb

\* length = self.producer.get_length()
wi_l355(c) ==
    /\ call_pc[c] = "l355"
    /\ IF producer = NoneHandle
       THEN leave(c, "write_image", "AttributeError", None, 0)
       ELSE /\ goto(c, "l357")
            /\ call_length' = [call_length EXCEPT ![c] = length_of(producer)]
            /\ UNCHANGED <<call_arg, call_result>>
    /\ UNCHANGED <<field_vars, run_pc, sd_pc>>
    /\ UNCHANGED not_thumb

\* frame = length / 2; self.producer = self.producer.cut(frame, frame)
wi_l357(c) ==
    /\ call_pc[c] = "l357"
    /\ IF producer = NoneHandle
       THEN /\ leave(c, "write_image", "AttributeError", None, 0)
            /\ UNCHANGED producer
       ELSE /\ goto(c, "l360")
            /\ producer' = [producer EXCEPT !.cut = TRUE]
            /\ UNCHANGED <<call_arg, call_length, call_result>>
    /\ UNCHANGED <<file_path, thumbnail_path, consumer, running, stopped,
                   run_pc, sd_pc>>
    /\ UNCHANGED not_thumb

\* self.consumer.connect(self.producer); self.consumer.run()
wi_l360(c) ==
    /\ call_pc[c] = "l360"
    /\ IF consumer = NoneHandle \/ producer = NoneHandle
       THEN leave(c, "write_image", "AttributeError", None, 0)
       ELSE goto(c, "l363") /\ UNCHANGED <<call_arg, call_length, call_result>>
    /\ UNCHANGED <<field_vars, run_pc, sd_pc>>
    /\ UNCHANGED not_thumb

\* return (self.thumbnail_path, length)
wi_l363(c) ==
    /\ call_pc[c] = "l363"
    /\ leave(c, "write_image", "none", thumbnail_path, call_length[c])
    /\ UNCHANGED <<field_vars, run_pc, sd_pc>>
    /\ UNCHANGED not_thumb

\* self.file_path = file_path
gl_l369(c) ==
    /\ call_pc[c] = "l369" /\ goto(c, "l372")
    /\ file_path' = call_arg[c]
    /\ UNCHANGED <<thumbnail_path, consumer, producer, running, stopped,
                   run_pc, sd_pc, call_arg, call_length, call_result>>
    /\ UNCHANGED not_thumb

\* self.producer = mlt.Producer(self.profile, str(self.file_path))
gl_l372(c) ==
    /\ call_pc[c] = "l372" /\ goto(c, "l373")
    /\ producer' = Producer(file_path)
    /\ UNCHANGED <<file_path, thumbnail_path, consumer, running, stopped,
                   run_pc, sd_pc, call_arg, call_length, call_result>>
    /\ UNCHANGED not_thumb

\* return self.producer.get_length()
gl_l373(c) ==
    /\ call_pc[c] = "l373"
    /\ IF producer = NoneHandle
       THEN leave(c, "get_file_length", "AttributeError", None, 0)
       ELSE leave(c, "get_file_length", "none", None, length_of(producer))
    /\ UNCHANGED <<field_vars, run_pc, sd_pc>>
    /\ UNCHANGED not_thumb

CallSteps(c) ==
    \/ wi_l340(c) \/ wi_l342(c) \/ wi_l345(c) \/ wi_l351(c) \/ wi_l352(c)
    \/ wi_l355(c) \/ wi_l357(c) \/ wi_l360(c) \/ wi_l363(c)
    \/ gl_l369(c) \/ gl_l372(c) \/ gl_l373(c)

\* the paths handed to the thread object: a video, an audio file and a file
\* the framework cannot read
ThumbPaths == {"clip.mp4", "song.wav", "bad.mp4"}

CallerNext(cs) ==
    \/ \E c \in cs, fp \in ThumbPaths :
          call_begin(c, "write_image", fp) \/ call_begin(c, "get_file_length", fp)
    \/ \E c \in cs : CallSteps(c)

\* run(), shutdown() and two threads calling into the object
NextThumb ==
    \/ Worker
    \/ sd_call
    \/ Shutdown
    \/ CallerNext(Callers)

\* run() and shutdown() with one other thread calling into the object
NextShutdown ==
    \/ Worker
    \/ sd_call
    \/ Shutdown
    \/ CallerNext({"caller_a"})

\* ========================================================== specifications
\* each machine starts from the state after construction and the other
\* machines' variables stay as constructed
Init == InitProject /\ InitMedia /\ InitLog /\ InitStart /\ InitThumb

Spec == Init /\ [][NextProject]_vars

SpecMedia == Init /\ [][NextMedia]_vars

SpecLog == Init /\ [][NextLog]_vars

SpecStart == Init /\ [][NextStart]_vars

SpecThumb == Init /\ [][NextThumb]_vars

\* the interpreter runs every runnable thread: the worker, a shutdown() that
\* has been entered and a call that has been entered keep taking steps
FairThumb ==
    /\ Init
    /\ [][NextShutdown]_vars
    /\ WF_vars(Worker)
    /\ WF_vars(Shutdown)
    /\ \A c \in Callers : WF_vars(CallSteps(c))


\* ================================================================== claims
Count(e, s) == Cardinality({i \in DOMAIN s : s[i] = e})

\* a is b with some items left out
RECURSIVE IsSubSeq(_, _)
IsSubSeq(a, b) ==
    IF a = <<>> THEN TRUE
    ELSE IF b = <<>> THEN FALSE
    ELSE IF Head(a) = Head(b) THEN IsSubSeq(Tail(a), Tail(b))
    ELSE IsSubSeq(a, Tail(b))

Without(s, gone) == SelectSeq(s, LAMBDA x : x \notin gone)

\* ---------------------------------------------------------------- Project
\* the ids in use were all handed out by the counter
IdsFromCounter == DOMAIN media_files = 0..(next_media_file_id - 1)

\* C1: every add (the step that increments next_media_file_id) stores its
\* object under an id that no media object has and that is greater than every
\* id in use, and next_media_file_id is then greater than every key of
\* media_files.
C1_IdsUniqueAndIncreasing ==
    [][next_media_file_id' # next_media_file_id =>
         LET ids == bins'[c_bin].file_ids
             new == ids[Len(ids)]
         IN  /\ new \notin DOMAIN media_files
             /\ \A k \in DOMAIN media_files : new > k
             /\ \A k \in DOMAIN media_files' : next_media_file_id' > k]_vars

\* C6: add_media_file(file_path) for a path whose producer is not valid raises
\* ProducerNotValidError, whatever the media type, and leaves media_files,
\* next_media_file_id and the bins as they were.
C6_InvalidProducerRaises ==
    [][\A fp \in Paths :
          (~producer_is_valid(fp) /\ add_media_file(fp)) =>
              /\ last_error' = ProducerNotValidError
              /\ UNCHANGED <<media_files, next_media_file_id, bins>>]_vars

\* C10: in a project whose ids all came from the counter,
\* delete_media_file_from_current_bin(media_file) for a media_file in the
\* current bin removes media_file.id from that bin's file_ids, keeps every
\* other id in order, and changes no other bin, media_files or
\* next_media_file_id.
C10_DeleteRemovesThatId ==
    [][\A k \in DOMAIN media_files :
          ( /\ IdsFromCounter
            /\ Count(k, bins[c_bin].file_ids) = 1
            /\ delete_media_file_from_current_bin(media_files[k]) ) =>
              /\ bins'[c_bin].file_ids = Without(bins[c_bin].file_ids, {k})
              /\ \A b \in DOMAIN bins : b # c_bin => bins'[b] = bins[b]
              /\ UNCHANGED <<media_files, next_media_file_id>>]_vars

\* -------------------------------------------------------------- MediaFile
Setters == {"set_as_proxy_media_file", "set_as_original_media_file"}

\* the object after the i-th call
StateAfter(i) == IF i = Len(mf_calls) THEN mf ELSE mf_calls[i + 1].pre

\* the positions where a call of first is followed by a call of second
Pairs(first, second) ==
    {i \in 1..(Len(mf_calls) - 1) :
        mf_calls[i].op = first /\ mf_calls[i + 1].op = second}

\* C2 as stated: each pair of calls, in either order, restores path,
\* second_file_path and is_proxy_file.
C2_SwapPairRestoresAll ==
    \A i \in Pairs("set_as_proxy_media_file", "set_as_original_media_file")
             \cup Pairs("set_as_original_media_file", "set_as_proxy_media_file") :
        LET before == mf_calls[i].pre
            after == StateAfter(i + 1)
        IN  /\ after.path = before.path
            /\ after.second_file_path = before.second_file_path
            /\ after.is_proxy_file = before.is_proxy_file

\* C2 as amended: each pair of calls, in either order, restores path and
\* second_file_path; is_proxy_file is what the second call of the pair sets
\* (False after proxy-then-original, True after original-then-proxy), so it
\* is restored exactly when it had that value before the pair.
C2_SwapPairRestoresPaths ==
    /\ \A i \in Pairs("set_as_proxy_media_file", "set_as_original_media_file") :
          LET before == mf_calls[i].pre
              after == StateAfter(i + 1)
          IN  /\ after.path = before.path
              /\ after.second_file_path = before.second_file_path
              /\ after.is_proxy_file = FALSE
    /\ \A i \in Pairs("set_as_original_media_file", "set_as_proxy_media_file") :
          LET before == mf_calls[i].pre
              after == StateAfter(i + 1)
          IN  /\ after.path = before.path
              /\ after.second_file_path = before.second_file_path
              /\ after.is_proxy_file = TRUE

\* a proxy-then-original pair made on a file that has a proxy and is marked
\* as the proxy, and an original-then-proxy pair made on one that is not
C2_PairsMade ==
    /\ \E i \in Pairs("set_as_proxy_media_file", "set_as_original_media_file") :
          mf_calls[i].pre.has_proxy_file /\ mf_calls[i].pre.is_proxy_file
    /\ \E i \in Pairs("set_as_original_media_file", "set_as_proxy_media_file") :
          mf_calls[i].pre.has_proxy_file /\ ~mf_calls[i].pre.is_proxy_file

\* C3: after add_proxy_file and then any calls of the two setters,
\* is_proxy_file is True exactly when path is the proxy path and
\* second_file_path the original path, and False exactly when path is the
\* original path and second_file_path the proxy path.
C3_ProxyFlagMatchesPaths ==
    ( /\ Len(mf_calls) >= 1
      /\ mf_calls[1].op = "add_proxy_file"
      /\ \A i \in 2..Len(mf_calls) : mf_calls[i].op \in Setters ) =>
        LET original == mf_calls[1].pre.path
            proxy == StateAfter(1).second_file_path
        IN  /\ mf.is_proxy_file <=>
                 (mf.path = proxy /\ mf.second_file_path = original)
            /\ ~mf.is_proxy_file <=>
                 (mf.path = original /\ mf.second_file_path = proxy)

\* -------------------------------------------------------------- media log
\* C4: on one log content, the (True, False) and (False, True) results
\* partition the log (every event is in exactly one of them, the starred
\* ones in the first, as many times as in the log and in the log's order),
\* (True, True) is the whole log,
\* (False, False) is empty, and the log is as it was.
C4_FilterPartitionsLog ==
    LET all == filtered_events[<<TRUE, TRUE>>]
        nothing == filtered_events[<<FALSE, FALSE>>]
        starred == filtered_events[<<TRUE, FALSE>>]
        plain == filtered_events[<<FALSE, TRUE>>]
    IN  /\ all.queried => all.events = media_log
        /\ nothing.queried => nothing.events = <<>>
        /\ (starred.queried /\ plain.queried) =>
              /\ \A e \in Events :
                    /\ Count(e, starred.events) + Count(e, plain.events)
                          = Count(e, media_log)
                    /\ Count(e, starred.events) = 0 \/ Count(e, plain.events) = 0
              /\ IsSubSeq(starred.events, media_log)
              /\ IsSubSeq(plain.events, media_log)
              /\ \A e \in Range(starred.events) : e.starred
              /\ \A e \in Range(plain.events) : ~e.starred
        /\ (\E f \in Flags : filtered_events[f].queried) =>
              media_log = (IF log_call.op = "append"
                           THEN Append(log_call.pre, log_call.arg[1])
                           ELSE IF log_call.op = "delete"
                           THEN delete_loop(log_call.pre, log_call.arg).log
                           ELSE <<>>)

\* all four queries made on a log that holds starred and unstarred events
C4_AllQueried ==
    /\ \A f \in Flags : filtered_events[f].queried
    /\ filtered_events[<<TRUE, FALSE>>].events # <<>>
    /\ filtered_events[<<FALSE, TRUE>>].events # <<>>
    /\ Len(media_log) = MaxLog

\* C5 as stated: after delete_media_log_events(delete_events) the log holds
\* none of the events of delete_events and every other event as many times
\* and in the same order as before.
C5_DeleteRemovesThoseEvents ==
    log_call.op = "delete" =>
        /\ \A e \in Range(log_call.arg) : Count(e, media_log) = 0
        /\ Without(media_log, Range(log_call.arg))
              = Without(log_call.pre, Range(log_call.arg))

\* C5 as amended: when delete_events names no event more often than the log
\* holds it, the call removes one occurrence per entry: each event is left as
\* many times as before less its entries in delete_events, the events left
\* keep their order, and every other event stays as before; an event listed
\* as often as the log holds it (once, in a log without repeats) is gone.
C5_DeleteRemovesOnePerEntry ==
    ( /\ log_call.op = "delete"
      /\ \A e \in Events : Count(e, log_call.arg) <= Count(e, log_call.pre) ) =>
        /\ log_call.raised = "none"
        /\ \A e \in Events :
              Count(e, media_log) = Count(e, log_call.pre) - Count(e, log_call.arg)
        /\ IsSubSeq(media_log, log_call.pre)
        /\ Without(media_log, Range(log_call.arg))
              = Without(log_call.pre, Range(log_call.arg))

\* two events deleted from a log of three events that holds one event twice
C5_Deleted ==
    /\ log_call.op = "delete"
    /\ log_call.raised = "none"
    /\ Len(log_call.arg) = 2
    /\ Len(log_call.pre) = 3
    /\ Cardinality(Range(log_call.pre)) = 2
    /\ Len(media_log) = 1

\* --------------------------------------------------------------- singleton
\* C7: at most one ThumbnailThread is ever started, and once the module-level
\* reference is set it refers to the thread that was started.
C7_OneThumbnailThread ==
    /\ Cardinality(started) <= 1
    /\ thumbnail_thread # NoThread => started \subseteq {thumbnail_thread}

\* --------------------------------------------------------- ThumbnailThread
\* the call of c came back with another path's thumbnail path or length
ForeignResult(c) ==
    /\ call_result[c].raised = "none"
    /\ \/ /\ call_result[c].op = "write_image"
          /\ \/ call_result[c].thumbnail_path # thumb_path_for(call_result[c].arg)
             \/ call_result[c].length # producer_get_length(call_result[c].arg)
       \/ /\ call_result[c].op = "get_file_length"
          /\ call_result[c].length # producer_get_length(call_result[c].arg)

\* C8: the calls work on the object's fields, not on their arguments: a call
\* creates its consumer and producer from, and returns, whatever file_path,
\* thumbnail_path and producer hold at that line, whichever thread stored it;
\* and a call returns another path's data only when another thread's call or
\* run()'s assignments have begun.
C8_CallsShareFields ==
    /\ [](\A c \in Callers :
            ForeignResult(c) =>
                \/ run_pc # "l320"
                \/ \E d \in Callers \ {c} :
                      call_pc[d] # "idle" \/ call_result[d] # NoResult)
    /\ [][\A c \in Callers :
            /\ (call_pc[c] = "l345" /\ call_pc'[c] = "l351") =>
                  consumer' = Consumer(thumbnail_path)
            /\ (call_pc[c] \in {"l351", "l372"} /\ call_pc'[c] \in {"l352", "l373"}) =>
                  producer' = Producer(file_path)
            /\ (call_pc[c] = "l355" /\ call_pc'[c] = "l357") =>
                  call_length'[c] = length_of(producer)
            /\ (call_pc[c] = "l363" /\ call_pc'[c] = "idle") =>
                  /\ call_result'[c].thumbnail_path = thumbnail_path
                  /\ call_result'[c].length = call_length[c]
            /\ (call_pc[c] = "l373" /\ call_pc'[c] = "idle"
                   /\ call_result'[c].raised = "none") =>
                  call_result'[c].length = length_of(producer)]_vars

\* write_image(a) came back with the thumbnail path and the length of the
\* path b that the other thread's call, still in flight, was given
C8_CrossedCalls ==
    \E c \in Callers : \E d \in Callers \ {c} :
        /\ call_result[c].op = "write_image"
        /\ call_result[c].raised = "none"
        /\ call_pc[d] # "idle"
        /\ call_arg[d] # call_result[c].arg
        /\ producer_is_valid(call_arg[d])
        /\ call_result[c].thumbnail_path = thumb_path_for(call_arg[d])
        /\ call_result[c].length = producer_get_length(call_arg[d])

\* C9: once shutdown() has returned, the worker's loop exits and stopped
\* becomes True, and stopped, once True, stays True.
C9_ShutdownStopsWorker ==
    /\ (sd_pc = "done") ~> (stopped = PyTrue)
    /\ [][stopped = PyTrue => stopped' = PyTrue]_vars

====
